---- MODULE Spec2Model ----
(***************************************************************************)
(* Model of the incident ETL pipeline: pipeline.py (orchestrator, tolerant *)
(* decoder, planner) and the three tool servers extract_server.py,         *)
(* transform_server.py and load_server.py.                                 *)
(*                                                                         *)
(* Python values are tagged records: [t |-> "none"], [t |-> "int", i],     *)
(* [t |-> "bool", b], [t |-> "float", tenths], [t |-> "inf"], [t |-> "nan"]*)
(* [t |-> "str", s] (s a sequence of one-character strings),               *)
(* [t |-> "text", form, payload] (a str holding a document),               *)
(* [t |-> "list", xs] and [t |-> "dict", d] (d a function on its keys).    *)
(***************************************************************************)
EXTENDS Integers, Sequences, FiniteSets, TLC

VARIABLES
    \* planner locals of run_pipeline
    llm_out, llm_plan, limit, offset, plan_pc,
    \* a call of a transform_server tool: its name, arguments and outcome
    tr_tool, tr_data, tr_categories, tr_result,
    \* load server: the database file, its tables, the last tool call and its
    \* reply, and the row count of the latest successful save of each table
    db_exists, tables, load_call, load_result, saved_rows,
    \* extract server: the number of requests sent to the remote API, the last
    \* tool call and its outcome
    requests, fetch_call, fetch_result,
    \* a call of ensure_list: its arguments and outcome
    en_data, en_ctx, en_result,
    \* run_pipeline: where the run stands, the tool calls issued so far, whether
    \* NAVIGATOR_API_KEY is set, its locals, whether the report was printed, and
    \* the exception that ended the run
    pc, calls, api_key, schema, sample, anomalies, llm_request, incidents, cleaned,
    categorized, save_msg, summary, safe_queries, query_results, printed, error

plannerVars == <<llm_out, llm_plan, limit, offset, plan_pc>>
transformVars == <<tr_tool, tr_data, tr_categories, tr_result>>
loadVars == <<db_exists, tables, load_call, load_result, saved_rows>>
extractVars == <<requests, fetch_call, fetch_result>>
decoderVars == <<en_data, en_ctx, en_result>>
pipelineVars ==
    <<pc, calls, api_key, schema, sample, anomalies, llm_request, incidents, cleaned,
      categorized, save_msg, summary, safe_queries, query_results, printed, error>>
vars == <<plannerVars, transformVars, loadVars, extractVars, decoderVars, pipelineVars>>

-----------------------------------------------------------------------------
(* Python values *)

PyNone == [t |-> "none"]
PyInt(n) == [t |-> "int", i |-> n]
PyBool(b) == [t |-> "bool", b |-> b]
PyFloat(k) == [t |-> "float", tenths |-> k]
PyInf == [t |-> "inf"]
PyNan == [t |-> "nan"]
PyStr(s) == [t |-> "str", s |-> s]
PyList(xs) == [t |-> "list", xs |-> xs]
PyDict(d) == [t |-> "dict", d |-> d]
EmptyDict == PyDict(<<>>)

\* a str whose content is a document: form is "json" (the text is exactly the
\* JSON serialisation of payload), "fenced" (prose around a ``` block holding
\* the serialisation of payload), "prose" (neither) or "blank" (only whitespace)
PyText(form, payload) == [t |-> "text", form |-> form, payload |-> payload]

IsStr(v) == v.t \in {"str", "text"}
IsDict(v) == v.t = "dict"
IsList(v) == v.t = "list"

Digits == <<"0", "1", "2", "3", "4", "5", "6", "7", "8", "9">>
IsDigit(c) == \E k \in 1..10 : Digits[k] = c
DigitVal(c) == (CHOOSE k \in 1..10 : Digits[k] = c) - 1
IsSpace(c) == c \in {" ", "\t", "\n"}

RECURSIVE LStrip(_)
LStrip(s) == IF s # <<>> /\ IsSpace(Head(s)) THEN LStrip(Tail(s)) ELSE s

RECURSIVE RStrip(_)
RStrip(s) ==
    IF s # <<>> /\ IsSpace(s[Len(s)]) THEN RStrip(SubSeq(s, 1, Len(s) - 1)) ELSE s

\* str.strip()
Strip(s) == RStrip(LStrip(s))

RECURSIVE DigitsValue(_, _)
DigitsValue(s, acc) ==
    IF s = <<>> THEN acc ELSE DigitsValue(Tail(s), acc * 10 + DigitVal(Head(s)))

AllDigits(s) == s # <<>> /\ \A k \in 1..Len(s) : IsDigit(s[k])

Raised == [ok |-> FALSE]
Value(n) == [ok |-> TRUE, i |-> n]

\* int(str): surrounding whitespace stripped, an optional sign, then digits
IntOfStr(s) ==
    LET b == Strip(s)
        signed == b # <<>> /\ Head(b) \in {"+", "-"}
        body == IF signed THEN Tail(b) ELSE b
    IN  IF ~AllDigits(body) THEN Raised
        ELSE IF signed /\ Head(b) = "-" THEN Value(0 - DigitsValue(body, 0))
        ELSE Value(DigitsValue(body, 0))

\* int(float) truncates toward zero
Trunc(k) == IF k >= 0 THEN k \div 10 ELSE 0 - ((0 - k) \div 10)

\* int(v) of the builtin: [ok |-> TRUE, i] or [ok |-> FALSE] when it raises
IntOf(v) ==
    CASE v.t = "int" -> Value(v.i)
      [] v.t = "bool" -> Value(IF v.b THEN 1 ELSE 0)
      [] v.t = "float" -> Value(Trunc(v.tenths))
      [] v.t = "str" -> IntOfStr(v.s)
      [] OTHER -> Raised

\* the outcome of a call: what it returned, or the exception it raised
NoError == "none"
Ok(v) == [raised |-> NoError, out |-> v]
Raise(e) == [raised |-> e, out |-> PyNone]

Max(a, b) == IF a >= b THEN a ELSE b
Min(a, b) == IF a <= b THEN a ELSE b

-----------------------------------------------------------------------------
(* pipeline.py: JSON helpers *)

\* _try_json_loads: the decoded value, or None when json.loads raises
_try_json_loads(s) == IF s.form = "json" THEN s.payload ELSE PyNone

\* the regex of try_parse_json matches a fenced block that holds {...} or [...]
FencedMatch(s) == s.form = "fenced" /\ s.payload.t \in {"dict", "list"}

try_parse_json(text) ==
    IF text.t = "none" THEN PyNone
    ELSE IF text.t \in {"dict", "list"} THEN text
    ELSE IF text.t # "text" THEN text
    ELSE IF text.form = "blank" THEN text
    ELSE IF _try_json_loads(text) # PyNone THEN _try_json_loads(text)
    ELSE IF FencedMatch(text) THEN text.payload
    ELSE text

\* type(v), as the error texts of ensure_list name it
TypeName(v) == IF v.t = "text" THEN "str" ELSE v.t

Fail(e, m) == [raised |-> e, out |-> PyNone, message |-> m]


\* ensure_list: only data[0] is looked at
ensure_list(data, ctx) ==
    LET d == try_parse_json(data)
    IN  IF IsList(d) THEN
            (IF d.xs # <<>> /\ ~IsDict(d.xs[1])
             THEN Fail("ValueError", [ctx |-> ctx, got |-> TypeName(d.xs[1])])
             ELSE Ok(d))
        ELSE Fail("ValueError", [ctx |-> ctx, got |-> TypeName(d)])

-----------------------------------------------------------------------------
(* pipeline.py: planning *)

DEFAULT_LIMIT == 500
DEFAULT_OFFSET == 0
MinLimit == 100
MaxLimit == 2000

HasKey(plan, k) == k \in DOMAIN plan.d

CoerceOr(plan, k, default) ==
    IF IsDict(plan) /\ HasKey(plan, k)
    THEN (IF IntOf(plan.d[k]).ok THEN IntOf(plan.d[k]).i ELSE default)
    ELSE default

ClampLimitNoFloor(n) == Min(n, MaxLimit)
ClampLimit(n) == Max(MinLimit, Min(n, MaxLimit))
ClampOffsetNoFloor(n) == n
ClampOffset(n) == Max(0, n)

sanitize_plan(plan) ==
    [limit |-> ClampLimit(CoerceOr(plan, "fetch_limit", DEFAULT_LIMIT)),
     offset |-> ClampOffset(CoerceOr(plan, "fetch_offset", DEFAULT_OFFSET))]

-----------------------------------------------------------------------------
(* text helpers: a Python str is a sequence of one-character strings *)

Lowers ==
    <<"a", "b", "c", "d", "e", "f", "g", "h", "i", "j", "k", "l", "m",
      "n", "o", "p", "q", "r", "s", "t", "u", "v", "w", "x", "y", "z">>
Uppers ==
    <<"A", "B", "C", "D", "E", "F", "G", "H", "I", "J", "K", "L", "M",
      "N", "O", "P", "Q", "R", "S", "T", "U", "V", "W", "X", "Y", "Z">>

IsLower(c) == \E k \in 1..26 : Lowers[k] = c
IsUpper(c) == \E k \in 1..26 : Uppers[k] = c
LowerChar(c) == IF IsUpper(c) THEN Lowers[CHOOSE k \in 1..26 : Uppers[k] = c] ELSE c
UpperChar(c) == IF IsLower(c) THEN Uppers[CHOOSE k \in 1..26 : Lowers[k] = c] ELSE c

\* str.lower() and str.upper()
Lower(s) == [k \in 1..Len(s) |-> LowerChar(s[k])]
Upper(s) == [k \in 1..Len(s) |-> UpperChar(s[k])]

\* kw in text
Contains(text, kw) ==
    \E p \in 0..(Len(text) - Len(kw)) : SubSeq(text, p + 1, p + Len(kw)) = kw

\* bool(v)
Truthy(v) ==
    CASE v.t = "none" -> FALSE
      [] v.t = "bool" -> v.b
      [] v.t = "int" -> v.i # 0
      [] v.t = "float" -> v.tenths # 0
      [] v.t = "str" -> v.s # <<>>
      [] v.t = "list" -> v.xs # <<>>
      [] v.t = "dict" -> DOMAIN v.d # {}
      [] OTHER -> TRUE

\* dict.get(k) and d[k] = v
Get(r, k) == IF k \in DOMAIN r.d THEN r.d[k] ELSE PyNone
SetKey(r, k, v) == PyDict([x \in (DOMAIN r.d) \cup {k} |-> IF x = k THEN v ELSE r.d[x]])

\* a or b
PyOr(a, b) == IF Truthy(a) THEN a ELSE b

-----------------------------------------------------------------------------
(* transform_server.py *)

\* rows of _parse_json_list: a row that is no dict is wrapped as {"_value": row}
WrapRow(row) == IF IsDict(row) THEN row ELSE PyDict([k \in {"_value"} |-> row])

_parse_json_list(data) ==
    IF data.t # "text" \/ data.form # "json" THEN Raise("ValueError")
    ELSE IF ~IsList(data.payload) THEN Raise("ValueError")
    ELSE Ok([k \in 1..Len(data.payload.xs) |-> WrapRow(data.payload.xs[k])])

(* datetime.strptime: each directive takes the digit run at the cursor, which
   must match the directive's pattern as a whole because a literal or the end
   of the text follows it; literals are matched ignoring case. *)
DigitRun(s, pos) ==
    LET ends == {e \in pos..(Len(s) + 1) : \A k \in pos..(e - 1) : IsDigit(s[k])}
    IN  SubSeq(s, pos, (CHOOSE e \in ends : \A f \in ends : f <= e) - 1)

FieldOK(f, run) ==
    LET n == Len(run)
        v == DigitsValue(run, 0)
    IN  CASE f = "Y" -> n = 4
          [] f = "m" -> (n = 2 /\ v >= 1 /\ v <= 12) \/ (n = 1 /\ v >= 1)
          [] f = "d" -> (n = 2 /\ v >= 1 /\ v <= 31) \/ (n = 1 /\ v >= 1)
          [] f = "H" -> (n = 2 /\ v <= 23) \/ n = 1
          [] f = "M" -> (n = 2 /\ v <= 59) \/ n = 1
          [] f = "S" -> (n = 2 /\ v <= 61) \/ n = 1
          [] f = "f" -> n >= 1 /\ n <= 6

\* %f: the digits are a fraction of a second, padded on the right to 6 places
RECURSIVE PadRight(_, _)
PadRight(run, n) == IF Len(run) >= n THEN run ELSE PadRight(Append(run, "0"), n)

FieldValue(f, run) ==
    IF f = "f" THEN DigitsValue(PadRight(run, 6), 0) ELSE DigitsValue(run, 0)

NoMatch == [ok |-> FALSE]

RECURSIVE MatchFormat(_, _, _, _)
MatchFormat(s, pos, items, acc) ==
    IF items = <<>> THEN
        (IF pos = Len(s) + 1 THEN [ok |-> TRUE, f |-> acc] ELSE NoMatch)
    ELSE IF "lit" \in DOMAIN Head(items) THEN
        (IF pos <= Len(s) /\ LowerChar(s[pos]) = LowerChar(Head(items).lit)
         THEN MatchFormat(s, pos + 1, Tail(items), acc)
         ELSE NoMatch)
    ELSE
        LET f == Head(items).dir
            \* %d also accepts a space followed by one digit 1-9
            lead == IF f = "d" /\ pos < Len(s) /\ s[pos] = " " THEN 1 ELSE 0
            run == DigitRun(s, pos + lead)
        IN  IF FieldOK(f, run) /\ (lead = 1 => (Len(run) = 1))
            THEN MatchFormat(s, pos + lead + Len(run), Tail(items),
                             [acc EXCEPT ![f] = FieldValue(f, run)])
            ELSE NoMatch

Dir(f) == [dir |-> f]
Lit(c) == [lit |-> c]

\* "%Y-%m-%dT%H:%M:%S"
FmtSeconds ==
    <<Dir("Y"), Lit("-"), Dir("m"), Lit("-"), Dir("d"), Lit("T"),
      Dir("H"), Lit(":"), Dir("M"), Lit(":"), Dir("S")>>
\* "%Y-%m-%dT%H:%M:%S.%f"
FmtFraction == FmtSeconds \o <<Lit("."), Dir("f")>>
\* "%Y-%m-%d", a format the server does not try
FmtDateOnly == <<Dir("Y"), Lit("-"), Dir("m"), Lit("-"), Dir("d")>>

IsLeap(y) == (y % 4 = 0 /\ y % 100 # 0) \/ y % 400 = 0
DaysInMonth(y, m) ==
    IF m = 2 THEN (IF IsLeap(y) THEN 29 ELSE 28)
    ELSE IF m \in {4, 6, 9, 11} THEN 30 ELSE 31

\* the datetime constructor's range checks
ValidDateTime(f) ==
    /\ f.Y >= 1
    /\ f.d <= DaysInMonth(f.Y, f.m)
    /\ f.S <= 59

ZeroFields == [Y |-> 0, m |-> 1, d |-> 1, H |-> 0, M |-> 0, S |-> 0, f |-> 0]

\* datetime.strptime(s, fmt): the fields, or ok = FALSE when it raises
strptime(s, fmt) ==
    LET r == MatchFormat(s, 1, fmt, ZeroFields)
    IN  IF r.ok /\ ValidDateTime(r.f) THEN r ELSE NoMatch

RECURSIVE Pad(_, _)
Pad(n, width) ==
    IF width = 0 THEN <<>> ELSE Append(Pad(n \div 10, width - 1), Digits[(n % 10) + 1])

\* datetime.isoformat()
isoformat(f) ==
    Pad(f.Y, 4) \o <<"-">> \o Pad(f.m, 2) \o <<"-">> \o Pad(f.d, 2) \o <<"T">>
    \o Pad(f.H, 2) \o <<":">> \o Pad(f.M, 2) \o <<":">> \o Pad(f.S, 2)
    \o (IF f.f # 0 THEN <<".">> \o Pad(f.f, 6) ELSE <<>>)

\* the formats _iso_parse tries, in order
IsoFormats == <<FmtFraction, FmtSeconds>>
IsoFormatsWithDateOnly == <<FmtFraction, FmtSeconds, FmtDateOnly>>

RECURSIVE TryFormats(_, _)
TryFormats(s, fmts) ==
    IF fmts = <<>> THEN PyNone
    ELSE IF strptime(s, Head(fmts)).ok THEN PyStr(isoformat(strptime(s, Head(fmts)).f))
    ELSE TryFormats(s, Tail(fmts))

_iso_parse(s) ==
    IF s.t = "none" THEN PyNone
    ELSE IF s.t # "str" \/ Strip(s.s) = <<>> THEN PyNone
    ELSE TryFormats(s.s, IsoFormats)

CleanRow(r) ==
    SetKey(SetKey(r, "report_date_parsed", _iso_parse(Get(r, "report_date"))),
           "offense_date_parsed", _iso_parse(Get(r, "offense_date")))

clean_dates(data) ==
    LET rows == _parse_json_list(data)
    IN  IF rows.raised # NoError THEN rows
        ELSE Ok(PyList([k \in 1..Len(rows.out) |-> CleanRow(rows.out[k])]))

\* the keyword rules of categorize_incidents, in the order the dict lists them
THEFT_PROPERTY == <<"T", "H", "E", "F", "T", "/", "P", "R", "O", "P", "E", "R", "T", "Y">>
ASSAULT_VIOLENCE == <<"A", "S", "S", "A", "U", "L", "T", "/", "V", "I", "O", "L", "E", "N", "C", "E">>
DRUG_ALCOHOL == <<"D", "R", "U", "G", "/", "A", "L", "C", "O", "H", "O", "L">>
TRAFFIC == <<"T", "R", "A", "F", "F", "I", "C">>
BURGLARY == <<"B", "U", "R", "G", "L", "A", "R", "Y">>
OTHER_LABEL == <<"O", "T", "H", "E", "R">>

rules ==
    <<[cat |-> THEFT_PROPERTY,
        kws |-> <<<<"t", "h", "e", "f", "t">>,
                  <<"s", "t", "o", "l", "e", "n">>,
                  <<"b", "u", "r", "g", "l", "a", "r", "y">>,
                  <<"r", "o", "b", "b", "e", "r", "y">>,
                  <<"l", "a", "r", "c", "e", "n", "y">>,
                  <<"s", "h", "o", "p", "l", "i", "f", "t">>,
                  <<"r", "e", "t", "a", "i", "l">>,
                  <<"v", "e", "h", "i", "c", "l", "e">>,
                  <<"a", "u", "t", "o">>,
                  <<"t", "a", "g">>,
                  <<"p", "r", "o", "p", "e", "r", "t", "y">>,
                  <<"f", "r", "a", "u", "d">>,
                  <<"l", "o", "s", "t", " ", "p", "r", "o", "p", "e", "r", "t", "y">>>>],
      [cat |-> ASSAULT_VIOLENCE,
        kws |-> <<<<"a", "s", "s", "a", "u", "l", "t">>,
                  <<"b", "a", "t", "t", "e", "r", "y">>,
                  <<"d", "o", "m", "e", "s", "t", "i", "c">>,
                  <<"v", "i", "o", "l", "e", "n", "c", "e">>,
                  <<"f", "i", "g", "h", "t">>,
                  <<"t", "h", "r", "e", "a", "t">>,
                  <<"s", "e", "x", "u", "a", "l">>,
                  <<"k", "i", "d", "n", "a", "p">>>>],
      [cat |-> DRUG_ALCOHOL,
        kws |-> <<<<"d", "r", "u", "g">>,
                  <<"n", "a", "r", "c", "o", "t", "i", "c">>,
                  <<"c", "o", "c", "a", "i", "n", "e">>,
                  <<"h", "e", "r", "o", "i", "n">>,
                  <<"m", "e", "t", "h">>,
                  <<"m", "a", "r", "i", "j", "u", "a", "n", "a">>,
                  <<"a", "l", "c", "o", "h", "o", "l">>,
                  <<"d", "u", "i">>,
                  <<"i", "n", "t", "o", "x">>>>],
      [cat |-> TRAFFIC,
        kws |-> <<<<"t", "r", "a", "f", "f", "i", "c">>,
                  <<"c", "r", "a", "s", "h">>,
                  <<"a", "c", "c", "i", "d", "e", "n", "t">>,
                  <<"h", "i", "t", " ", "a", "n", "d", " ", "r", "u", "n">>,
                  <<"r", "e", "c", "k", "l", "e", "s", "s">>,
                  <<"s", "p", "e", "e", "d">>,
                  <<"r", "o", "a", "d">>,
                  <<"p", "a", "r", "k", "i", "n", "g">>>>],
      [cat |-> BURGLARY,
        kws |-> <<<<"b", "u", "r", "g", "l", "a", "r", "y">>,
                  <<"b", "r", "e", "a", "k">>,
                  <<"b", "r", "e", "a", "k", "i", "n", "g">>,
                  <<"t", "r", "e", "s", "p", "a", "s", "s">>,
                  <<"p", "r", "o", "w", "l", "e", "r">>>>]>>

RuleCats == {rules[k].cat : k \in 1..Len(rules)}

AllowedRejectEmpty(categories) ==
    IF ~Truthy(categories) THEN [raised |-> "ValidationError", set |-> {}]
    ELSE IF categories.t = "list" THEN
        (IF \E k \in 1..Len(categories.xs) : categories.xs[k].t # "str"
         THEN [raised |-> "AttributeError", set |-> {}]
         ELSE [raised |-> NoError,
               set |-> {Upper(categories.xs[k].s) : k \in 1..Len(categories.xs)}])
    ELSE [raised |-> "TypeError", set |-> {}]

\* allowed = {c.upper() for c in categories} if categories else set(rules.keys()) | {"OTHER"}
Allowed(categories) ==
    IF ~Truthy(categories) THEN [raised |-> NoError, set |-> RuleCats \cup {OTHER_LABEL}]
    ELSE IF categories.t = "list" THEN
        (IF \E k \in 1..Len(categories.xs) : categories.xs[k].t # "str"
         THEN [raised |-> "AttributeError", set |-> {}]
         ELSE [raised |-> NoError,
               set |-> {Upper(categories.xs[k].s) : k \in 1..Len(categories.xs)}])
    ELSE IF categories.t = "str" THEN
        [raised |-> NoError, set |-> {Upper(<<categories.s[k]>>) : k \in 1..Len(categories.s)}]
    ELSE [raised |-> "TypeError", set |-> {}]

\* r.get("narrative") or r.get("incident_type") or ""
SearchValue(r) == PyOr(PyOr(Get(r, "narrative"), Get(r, "incident_type")), PyStr(<<>>))

AnyKeyword(kws, text) == \E k \in 1..Len(kws) : Contains(text, kws[k])

RECURSIVE FirstRule(_, _, _)
FirstRule(k, allowed, text) ==
    IF k > Len(rules) THEN OTHER_LABEL
    ELSE IF rules[k].cat \in allowed /\ AnyKeyword(rules[k].kws, text) THEN rules[k].cat
    ELSE FirstRule(k + 1, allowed, text)

Chosen(r, allowed) == FirstRule(1, allowed, Lower(SearchValue(r).s))

categorize_incidents(data, categories) ==
    LET rows == _parse_json_list(data)
        allowed == Allowed(categories)
    IN  IF rows.raised # NoError THEN rows
        ELSE IF allowed.raised # NoError THEN Raise(allowed.raised)
        ELSE IF \E k \in 1..Len(rows.out) : SearchValue(rows.out[k]).t # "str"
             THEN Raise("AttributeError")
        ELSE Ok(PyList([k \in 1..Len(rows.out) |->
                    SetKey(rows.out[k], "category",
                           PyStr(Lower(Chosen(rows.out[k], allowed.set))))]))

\* float(v) on the values drawn here: numbers, and strings holding a signed
\* decimal with at most one fractional digit; anything else raises
FloatOfStr(s) ==
    LET b == Strip(s)
        signed == b # <<>> /\ Head(b) \in {"+", "-"}
        body == IF signed THEN Tail(b) ELSE b
        sign == IF signed /\ Head(b) = "-" THEN 0 - 1 ELSE 1
        n == Len(body)
    IN  IF AllDigits(body) THEN [ok |-> TRUE, tenths |-> sign * 10 * DigitsValue(body, 0)]
        ELSE IF n >= 3 /\ body[n - 1] = "." /\ AllDigits(SubSeq(body, 1, n - 2)) /\ IsDigit(body[n])
        THEN [ok |-> TRUE,
              tenths |-> sign * (10 * DigitsValue(SubSeq(body, 1, n - 2), 0) + DigitVal(body[n]))]
        ELSE [ok |-> FALSE, tenths |-> 0]

FloatOf(v) ==
    CASE v.t = "int" -> [ok |-> TRUE, tenths |-> 10 * v.i]
      [] v.t = "bool" -> [ok |-> TRUE, tenths |-> IF v.b THEN 10 ELSE 0]
      [] v.t = "float" -> [ok |-> TRUE, tenths |-> v.tenths]
      [] v.t = "str" -> FloatOfStr(v.s)
      [] OTHER -> [ok |-> FALSE, tenths |-> 0]

\* bad_coord of detect_anomalies: a conversion that raises counts as bad
bad_coord(r) ==
    LET lat == Get(r, "latitude")
        lon == Get(r, "longitude")
    IN  IF lat # PyNone /\ ~FloatOf(lat).ok THEN TRUE
        ELSE IF lon # PyNone /\ ~FloatOf(lon).ok THEN TRUE
        ELSE IF lat = PyNone \/ lon = PyNone THEN FALSE
        ELSE ~(/\ 0 - 900 <= FloatOf(lat).tenths /\ FloatOf(lat).tenths <= 900
               /\ 0 - 1800 <= FloatOf(lon).tenths /\ FloatOf(lon).tenths <= 1800)

\* not (r.get("narrative") or r.get("incident_type"))
IsMissingType(r) == ~Truthy(PyOr(Get(r, "narrative"), Get(r, "incident_type")))

\* not r.get("report_date") and not r.get("offense_date")
MissingBothDates(r) == ~Truthy(Get(r, "report_date")) /\ ~Truthy(Get(r, "offense_date"))
\* not r.get("report_date") or not r.get("offense_date")
IsMissingDates(r) == ~Truthy(Get(r, "report_date")) \/ ~Truthy(Get(r, "offense_date"))

Take(s, n) == SubSeq(s, 1, Min(n, Len(s)))

Defects(found) == PyDict([count |-> PyInt(Len(found)), sample |-> PyList(Take(found, 3))])

detect_anomalies(data) ==
    LET rows == _parse_json_list(data)
    IN  IF rows.raised # NoError THEN rows
        ELSE Ok(PyDict(
                [total_rows |-> PyInt(Len(rows.out)),
                 missing_type_or_narrative |-> Defects(SelectSeq(rows.out, IsMissingType)),
                 missing_dates |-> Defects(SelectSeq(rows.out, IsMissingDates)),
                 bad_coordinates |-> Defects(SelectSeq(rows.out, bad_coord))]))

-----------------------------------------------------------------------------
(* load_server.py: the store is the SQLite file (db_exists) and its tables, a
   function from the names of the tables that exist to their rows *)

IsAlnumChar(c) == IsLower(c) \/ IsUpper(c) \/ IsDigit(c)
\* str.isalnum()
IsAlnum(s) == s # <<>> /\ \A k \in 1..Len(s) : IsAlnumChar(s[k])
\* table_name.replace("_", "")
DropUnderscores(s) == SelectSeq(s, LAMBDA c : c # "_")

NameRejectedOnlyEmpty(table_name) == table_name = <<>>
\* not table_name or not table_name.replace("_", "").isalnum()
NameRejected(table_name) ==
    table_name = <<>> \/ ~IsAlnum(DropUnderscores(table_name))

\* the JSON text a tool returns
Json(v) == PyText("json", v)
ErrorMsg(e) == Json(PyDict([ok |-> PyBool(FALSE), error |-> e]))

\* _stringify_complex_columns: dict and list cells become JSON strings
StringifyRow(r) ==
    PyDict([k \in DOMAIN r.d |-> IF r.d[k].t \in {"dict", "list"} THEN Json(r.d[k]) ELSE r.d[k]])
Stringify(rows) == [k \in 1..Len(rows) |-> StringifyRow(rows[k])]

\* list(df.columns): the keys of the rows
Columns(rows) == UNION {DOMAIN rows[k].d : k \in 1..Len(rows)}

Put(tbls, name, rows) ==
    [n \in (DOMAIN tbls) \cup {name} |-> IF n = name THEN rows ELSE tbls[n]]
Drop(tbls, name) == [n \in (DOMAIN tbls) \ {name} |-> tbls[n]]

(* save_to_sqlite: the message returned and the store left behind.  io is the
   outcome of df.to_sql(if_exists="replace"): "ok", or an error raised before
   ("error") or after ("error_after_drop") the old table was dropped. *)
save_to_sqlite(data, table_name, io, exists, tbls) ==
    IF NameRejected(table_name)
    THEN [msg |-> ErrorMsg("ValueError: table_name must be alphanumeric/underscore only"),
          db_exists |-> exists, tables |-> tbls]
    ELSE IF _parse_json_list(data).raised # NoError
    THEN [msg |-> ErrorMsg("ValueError: save_to_sqlite: invalid input"),
          db_exists |-> exists, tables |-> tbls]
    ELSE LET rows == Stringify(_parse_json_list(data).out)
         IN  CASE io = "ok" ->
                   [msg |-> Json(PyDict([ok |-> PyBool(TRUE),
                                         table |-> PyStr(table_name),
                                         rows_saved |-> PyInt(Len(rows)),
                                         columns |-> Columns(rows)])),
                    db_exists |-> TRUE,
                    tables |-> Put(tbls, table_name, rows)]
               [] io = "error" ->
                   [msg |-> ErrorMsg("DatabaseError"),
                    db_exists |-> TRUE, tables |-> tbls]
               [] io = "error_after_drop" ->
                   [msg |-> ErrorMsg("DatabaseError"),
                    db_exists |-> TRUE, tables |-> Drop(tbls, table_name)]

\* a name SQLite reads as one bare identifier when pasted into the statement
BareIdentifier(name) ==
    /\ name # <<>>
    /\ ~IsDigit(name[1])
    /\ \A k \in 1..Len(name) : IsAlnumChar(name[k]) \/ name[k] = "_"

HasColumn(rows, c) == c \in Columns(rows)
NonNull(rows, c) == \E k \in 1..Len(rows) : Get(rows[k], c) # PyNone

\* the first of "incident_type", "narrative", "category" that is a column
TopField(rows) ==
    IF HasColumn(rows, "incident_type") THEN PyStr(<<"incident_type">>)
    ELSE IF HasColumn(rows, "narrative") THEN PyStr(<<"narrative">>)
    ELSE IF HasColumn(rows, "category") THEN PyStr(<<"category">>)
    ELSE PyNone

SummaryDateColumns ==
    {"report_date", "offense_date", "report_date_parsed", "offense_date_parsed"}

\* generate_summary; of top_values and date_ranges the model keeps the column
\* chosen and the columns reported
generate_summary(table_name, exists, tbls) ==
    IF ~exists THEN ErrorMsg("Database not found. Run save_to_sqlite first.")
    ELSE IF ~BareIdentifier(table_name) \/ table_name \notin DOMAIN tbls
    THEN ErrorMsg("OperationalError")
    ELSE LET rows == tbls[table_name]
         IN  Json(PyDict([ok |-> PyBool(TRUE),
                          table |-> PyStr(table_name),
                          row_count |-> PyInt(Len(rows)),
                          top_values |-> TopField(rows),
                          date_ranges |-> {c \in SummaryDateColumns : NonNull(rows, c)}]))

\* query_database on the statements build_safe_queries writes: sql is
\* [kind |-> "count", table] for SELECT COUNT(*) AS total_rows FROM {table},
\* [kind |-> "group", column, table] and [kind |-> "minmax", column, table]
\* for the statements over one column (their rows are left out), and any other
\* text is [kind |-> "garbage"]
query_database(sql, exists, tbls) ==
    IF ~exists THEN ErrorMsg("Database not found. Run save_to_sqlite first.")
    ELSE IF sql.kind = "garbage" THEN ErrorMsg("OperationalError")
    ELSE IF ~BareIdentifier(sql.table) \/ sql.table \notin DOMAIN tbls
    THEN ErrorMsg("OperationalError")
    ELSE IF sql.kind = "count"
    THEN Json(PyDict([ok |-> PyBool(TRUE),
                      columns |-> {"total_rows"},
                      rows |-> PyList(<<PyList(<<PyInt(Len(tbls[sql.table]))>>)>>)]))
    ELSE IF HasColumn(tbls[sql.table], sql.column)
    THEN Json(PyDict([ok |-> PyBool(TRUE), columns |-> {sql.column}]))
    ELSE ErrorMsg("OperationalError")

-----------------------------------------------------------------------------
(* extract_server.py *)

HardCeiling == 2000

ParamErrorNoCeiling(lim, off) ==
    IF lim <= 0 THEN "limit must be > 0"
    ELSE IF off < 0 THEN "offset must be >= 0"
    ELSE ""

\* the checks that open fetch_incidents and fetch_by_date_range: the text of
\* the error returned, "" when the parameters pass
ParamError(lim, off) ==
    IF lim <= 0 THEN "limit must be > 0"
    ELSE IF lim > HardCeiling THEN "limit too large (max 2000)"
    ELSE IF off < 0 THEN "offset must be >= 0"
    ELSE ""

(* _http_get on the answer http of the remote API: [kind |-> "rows", rows],
   "http_error" (raise_for_status raises), "not_list" (the body is no JSON
   list) or "unreachable" (requests.get raises) *)
_http_get(http) ==
    CASE http.kind = "rows" -> Ok(PyList(http.rows))
      [] http.kind = "http_error" -> Raise("HTTPError")
      [] http.kind = "not_list" -> Raise("ValueError")
      [] http.kind = "unreachable" -> Raise("ConnectionError")

\* what a fetch tool does once its parameters passed: one request, and the
\* rows or the error object as JSON text
Fetched(http) ==
    [sent |-> 1,
     reply |-> IF _http_get(http).raised = NoError
               THEN Json(_http_get(http).out)
               ELSE ErrorMsg(_http_get(http).raised)]

\* fetch_incidents: the text returned and the number of requests sent
fetch_incidents(lim, off, http) ==
    IF ParamError(lim, off) # ""
    THEN [sent |-> 0, reply |-> ErrorMsg(ParamError(lim, off))]
    ELSE Fetched(http)

\* fetch_by_date_range: the dates go into $where unchecked
fetch_by_date_range(start_iso, end_iso, lim, off, http) ==
    IF ParamError(lim, off) # ""
    THEN [sent |-> 0, reply |-> ErrorMsg(ParamError(lim, off))]
    ELSE Fetched(http)

-----------------------------------------------------------------------------
(* pipeline.py: the MCP client helpers and the queries *)

ErrorExecutingTool == <<"E", "r", "r", "o", "r", " ", "e", "x", "e", "c", "u", "t", "i", "n", "g", " ", "t", "o", "o", "l">>
UnknownTool == <<"U", "n", "k", "n", "o", "w", "n", " ", "t", "o", "o", "l", ":", " ", "g", "e", "t", "_", "s", "c", "h", "e", "m", "a">>
CharsError == <<"e", "r", "r", "o", "r">>

\* the text a server sends back for a tool call: the tool's return value, or
\* FastMCP's error text when the tool raised
ToolText(outcome) ==
    IF outcome.raised = NoError
    THEN (IF outcome.out.t = "text" THEN outcome.out ELSE Json(outcome.out))
    ELSE PyStr(ErrorExecutingTool)

\* call_tool: the first content text of the result, through try_parse_json
call_tool(outcome) == try_parse_json(ToolText(outcome))

StartsWith(s, prefix) == Len(s) >= Len(prefix) /\ SubSeq(s, 1, Len(prefix)) = prefix

\* isinstance(save_msg, str) and save_msg.lower().startswith("error"); a str
\* that is a JSON or blank document does not start with "error"
SaveFailed(msg) ==
    msg.t = "str" /\ StartsWith(Lower(msg.s), CharsError)

QueryDateColumns == <<"report_date", "offense_date", "report_datetime", "offense_datetime">>

\* build_safe_queries: the statements, named by what they select
build_safe_queries(sample_rows, table) ==
    LET cols == IF sample_rows # <<>> THEN DOMAIN sample_rows[1].d ELSE {}
        dated == {k \in 1..Len(QueryDateColumns) : QueryDateColumns[k] \in cols}
    IN  Take(<<[kind |-> "count", table |-> table]>>
             \o (IF "category" \in cols
                 THEN <<[kind |-> "group", column |-> "category", table |-> table]>>
                 ELSE <<>>)
             \o (IF "incident_type" \in cols
                 THEN <<[kind |-> "group", column |-> "incident_type", table |-> table]>>
                 ELSE <<>>)
             \o (IF dated # {}
                 THEN <<[kind |-> "minmax", table |-> table,
                         column |-> QueryDateColumns[CHOOSE k \in dated : \A j \in dated : k <= j]]>>
                 ELSE <<>>),
             6)

\* read_schema: the descriptor of the resource schema://incidents, or, when
\* the resource cannot be read, what call_tool gives for "get_schema", which
\* the extract server does not offer as a tool
SchemaDescriptor ==
    PyDict([expected_common_fields |-> PyList(<<>>),
            pagination |-> PyDict([max_limit |-> PyInt(2000)])])

read_schema(resource_ok) ==
    IF resource_ok THEN try_parse_json(Json(SchemaDescriptor))
    ELSE try_parse_json(PyStr(UnknownTool))

\* build_llm_plan_prompt: the prompt holds str(schema) and str(anomalies)
build_llm_plan_prompt(sch, anom) == [schema |-> sch, anomalies |-> anom]

-----------------------------------------------------------------------------
(* the state of each component before it is used *)

Pending == [raised |-> "pending", out |-> PyNone]

NoCall == [tool |-> "none"]

IdlePlanner ==
    /\ llm_out = PyNone
    /\ llm_plan = PyNone
    /\ limit = DEFAULT_LIMIT
    /\ offset = DEFAULT_OFFSET
    /\ plan_pc = "idle"

IdleTransform ==
    /\ tr_tool = "idle"
    /\ tr_data = PyNone
    /\ tr_categories = PyNone
    /\ tr_result = Pending

IdleLoad ==
    /\ db_exists = FALSE
    /\ tables = <<>>
    /\ load_call = NoCall
    /\ load_result = PyNone
    /\ saved_rows = <<>>

IdleExtract ==
    /\ requests = 0
    /\ fetch_call = NoCall
    /\ fetch_result = Pending

IdleDecoder ==
    /\ en_data = PyNone
    /\ en_ctx = <<>>
    /\ en_result = Pending

IdlePipeline ==
    /\ pc = "idle"
    /\ calls = <<>>
    /\ api_key = FALSE
    /\ schema = PyNone /\ sample = PyNone /\ anomalies = PyNone
    /\ llm_request = PyNone
    /\ incidents = PyNone /\ cleaned = PyNone /\ categorized = PyNone
    /\ save_msg = PyNone /\ summary = PyNone
    /\ safe_queries = <<>> /\ query_results = <<>>
    /\ printed = FALSE
    /\ error = NoError

-----------------------------------------------------------------------------
(* the transform server's tools, each called once on a batch *)

MaxRows == 2

Absent == [t |-> "absent"]
\* a dict from a record of fields, leaving out the fields that are Absent
FromFields(f) == PyDict([k \in {x \in DOMAIN f : f[x] # Absent} |-> f[k]])

CatTheft == <<"t", "h", "e", "f", "t">>
CatAssault == <<"a", "s", "s", "a", "u", "l", "t">>
CatBurglaryLower == <<"b", "u", "r", "g", "l", "a", "r", "y">>
TextBoth == <<"A", "s", "s", "a", "u", "l", "t", ",", " ", "a", "s", "s", "a", "u", "l", "t", ",", " ", "t", "h", "e", "n", " ", "T", "H", "E", "F", "T">>
TextTheft == <<"h", "a", "p", "p", "y", " ", "t", "h", "e", "f", "t">>
TextBurglary == <<"B", "u", "r", "g", "l", "a", "r", "y", " ", "a", "t", " ", "n", "i", "g", "h", "t">>
TextNoise == <<"l", "o", "u", "d", " ", "n", "o", "i", "s", "e">>
DateOnly == <<"2", "0", "2", "4", "-", "0", "1", "-", "0", "1">>
NotADate == <<"n", "o", "t", "-", "a", "-", "d", "a", "t", "e">>
DateSocrata == <<"2", "0", "2", "6", "-", "0", "2", "-", "1", "6", "T", "2", "3", ":", "1", "5", ":", "0", "0", ".", "0", "0", "0">>
DateFraction == <<"2", "0", "2", "4", "-", "0", "1", "-", "0", "1", "T", "1", "0", ":", "3", "0", ":", "0", "0", ".", "5">>
DateFeb30 == <<"2", "0", "2", "4", "-", "0", "2", "-", "3", "0", "T", "0", "0", ":", "0", "0", ":", "0", "0">>
DateShort == <<"2", "0", "2", "4", "-", "1", "-", "5", "T", "7", ":", "0", "5", ":", "0", "9">>
CharsStale == <<"s", "t", "a", "l", "e">>
CharsX == <<"X">>
CharsAbc == <<"a", "b", "c">>
Chars29 == <<"2", "9", ".", "6">>
CharsMinus82 == <<"-", "8", "2", ".", "3">>

\* DEFAULT_CATEGORIES of pipeline.py
DEFAULT_CATEGORIES ==
    PyList(<<PyStr(THEFT_PROPERTY), PyStr(ASSAULT_VIOLENCE), PyStr(DRUG_ALCOHOL),
             PyStr(TRAFFIC), PyStr(BURGLARY), PyStr(OTHER_LABEL)>>)

CategoryArgs ==
    {PyList(<<PyStr(CatTheft), PyStr(CatAssault)>>),
     PyList(<<PyStr(CatAssault), PyStr(CatTheft)>>),
     PyList(<<PyStr(BURGLARY), PyStr(THEFT_PROPERTY)>>),
     PyList(<<PyStr(CatBurglaryLower)>>),
     DEFAULT_CATEGORIES,
     PyList(<<>>), PyNone,
     PyInt(5), PyList(<<PyStr(CatTheft), PyInt(1)>>), PyList(<<PyNone>>)}

CatRows ==
    {FromFields([narrative |-> n, incident_type |-> i]) :
        n \in {Absent, PyStr(<<>>), PyStr(TextBoth), PyStr(TextBurglary), PyStr(TextNoise), PyInt(5)},
        i \in {Absent, PyStr(TextTheft)}}
    \cup {FromFields([incident_description |-> PyStr(TextTheft)]), PyInt(7)}

DateRows ==
    {FromFields([report_date |-> r, offense_date |-> o]) :
        r \in {Absent, PyNone, PyStr(<<>>), PyStr(<<" ">>), PyStr(DateOnly), PyStr(NotADate),
               PyStr(DateSocrata), PyStr(DateFeb30), PyStr(DateShort), PyInt(20240101)},
        o \in {Absent, PyStr(DateFraction)}}
    \cup {FromFields([report_date_parsed |-> PyStr(CharsStale)])}

AnomalyRows ==
    {FromFields([incident_type |-> PyStr(CharsX), report_date |-> r, offense_date |-> o]) :
        r \in {Absent, PyNone, PyStr(<<>>), PyInt(0), PyStr(DateSocrata)},
        o \in {Absent, PyStr(<<>>), PyStr(DateFraction)}}
    \cup {FromFields([incident_type |-> PyStr(<<>>)]),
          FromFields([narrative |-> PyStr(TextNoise), latitude |-> PyInt(999), longitude |-> PyInt(0)]),
          FromFields([latitude |-> PyStr(Chars29), longitude |-> PyStr(CharsMinus82)]),
          FromFields([latitude |-> PyStr(CharsAbc)])}

\* the JSON texts of the batches of up to MaxRows rows
Batches(rows) ==
    {PyText("json", PyList(xs)) : xs \in UNION {[1..n -> rows] : n \in 0..MaxRows}}

MalformedData == {PyText("prose", PyNone), PyText("json", EmptyDict)}

InitTransform ==
    /\ IdlePlanner /\ IdleLoad /\ IdleExtract /\ IdleDecoder /\ IdlePipeline
    /\ tr_tool \in {"clean_dates", "categorize_incidents", "detect_anomalies"}
    /\ tr_data \in MalformedData \cup
                (CASE tr_tool = "clean_dates" -> Batches(DateRows)
                   [] tr_tool = "categorize_incidents" -> Batches(CatRows)
                   [] tr_tool = "detect_anomalies" -> Batches(AnomalyRows))
    /\ tr_categories \in (IF tr_tool = "categorize_incidents" THEN CategoryArgs ELSE {PyNone})
    /\ tr_result = Pending

CallCleanDates ==
    /\ tr_tool = "clean_dates" /\ tr_result = Pending
    /\ tr_result' = clean_dates(tr_data)
    /\ UNCHANGED <<tr_tool, tr_data, tr_categories, plannerVars, loadVars, extractVars, decoderVars, pipelineVars>>

CallCategorize ==
    /\ tr_tool = "categorize_incidents" /\ tr_result = Pending
    /\ tr_result' = categorize_incidents(tr_data, tr_categories)
    /\ UNCHANGED <<tr_tool, tr_data, tr_categories, plannerVars, loadVars, extractVars, decoderVars, pipelineVars>>

CallDetectAnomalies ==
    /\ tr_tool = "detect_anomalies" /\ tr_result = Pending
    /\ tr_result' = detect_anomalies(tr_data)
    /\ UNCHANGED <<tr_tool, tr_data, tr_categories, plannerVars, loadVars, extractVars, decoderVars, pipelineVars>>

NextTransform == CallCleanDates \/ CallCategorize \/ CallDetectAnomalies

SpecTransform == InitTransform /\ [][NextTransform]_vars

Returned(t) == tr_tool = t /\ tr_result.raised = NoError
InputRows == _parse_json_list(tr_data).out

Finished(t) == tr_tool = t /\ tr_result # Pending
Decodable == _parse_json_list(tr_data).raised = NoError
OutputRows == tr_result.out.xs

ListOfStrings(c) ==
    c.t = "list" /\ c.xs # <<>> /\ \A k \in 1..Len(c.xs) : c.xs[k].t = "str"

\* the first category, in the caller's order, whose lowercase form occurs in
\* the text; <<>> when none does
RECURSIVE FirstCallerMatch(_, _, _)
FirstCallerMatch(k, cats, text) ==
    IF k > Len(cats) THEN <<>>
    ELSE IF Contains(text, Lower(cats[k].s)) THEN cats[k].s
    ELSE FirstCallerMatch(k + 1, cats, text)

\* C3: categorize assigns to each record the first category, in the order of
\* the caller-supplied list, whose lowercase form is a substring of the
\* record's lowercased text (with ["theft", "assault"] and a text holding both
\* keywords the category is "theft").
C3_FirstCallerMatchWins ==
    (Returned("categorize_incidents") /\ ListOfStrings(tr_categories)) =>
        \A k \in 1..Len(InputRows) :
            LET m == FirstCallerMatch(1, tr_categories.xs,
                                      Lower(SearchValue(InputRows[k]).s))
            IN  m # <<>> => Lower(Get(OutputRows[k], "category").s) = Lower(m)

\* what the claim says a date value parses to: the date-only format is
\* accepted as well
ClaimedParse(v) ==
    IF v.t = "str" THEN TryFormats(v.s, IsoFormatsWithDateOnly) ELSE PyNone

\* C7: clean_dates never raises on a record's date value and sets
\* report_date_parsed for every record; a date-only value such as "2024-01-01"
\* yields "2024-01-01T00:00:00"; a value that is absent, not a string or in no
\* accepted format yields None.
C7_CleanDatesParsesDateOnly ==
    (Finished("clean_dates") /\ Decodable) =>
        /\ tr_result.raised = NoError
        /\ \A k \in 1..Len(InputRows) :
            /\ "report_date_parsed" \in DOMAIN OutputRows[k].d
            /\ OutputRows[k].d["report_date_parsed"]
                 = ClaimedParse(Get(InputRows[k], "report_date"))

DateFields == {"report_date", "offense_date"}
LacksBothDates(r) == \A f \in DateFields : ~Truthy(Get(r, f))
LacksADate(r) == \E f \in DateFields : ~Truthy(Get(r, f))
\* the number of rows of the batch that satisfy P
CountRows(P(_)) == Cardinality({k \in 1..Len(InputRows) : P(InputRows[k])})
MissingDatesCount == Get(tr_result.out, "missing_dates").d["count"].i

\* C8 as stated: detect counts a record in missing_dates exactly when both
\* date fields (report_date and offense_date) are absent.
C8_MissingDatesWhenBothAbsent ==
    Returned("detect_anomalies") => MissingDatesCount = CountRows(LacksBothDates)

\* C8 amended: detect counts a record in missing_dates exactly when at least
\* one of report_date and offense_date is absent, null, empty or otherwise
\* falsy; a record that has only one of the two is counted.
C8_MissingDatesWhenEitherAbsent ==
    Returned("detect_anomalies") => MissingDatesCount = CountRows(LacksADate)

\* detect ran on a batch holding a record with a report_date and no
\* offense_date, and counted it
C8_Witness ==
    /\ Returned("detect_anomalies")
    /\ \E k \in 1..Len(InputRows) :
        /\ Truthy(Get(InputRows[k], "report_date"))
        /\ "offense_date" \notin DOMAIN InputRows[k].d
    /\ CountRows(LacksBothDates) = 0
    /\ MissingDatesCount >= 1

\* a categories argument that is not a list of strings
WrongShaped(c) ==
    Truthy(c) /\ (c.t \notin {"list", "str"}
                  \/ (c.t = "list" /\ \E k \in 1..Len(c.xs) : c.xs[k].t # "str"))

\* the keys of rules and "OTHER", as a categories argument
BuiltInCategories ==
    PyList([k \in 1..(Len(rules) + 1) |->
              IF k <= Len(rules) THEN PyStr(rules[k].cat) ELSE PyStr(OTHER_LABEL)])

\* C9 as stated: categorize called with an empty or wrong-shaped categories
\* argument fails with a ValidationError and assigns no category.
C9_EmptyCategoriesRejected ==
    (Finished("categorize_incidents") /\ Decodable
       /\ (tr_categories = PyList(<<>>) \/ WrongShaped(tr_categories))) =>
        (tr_result.raised # NoError /\ tr_result.out = PyNone)

\* C9 amended: categorize called with an empty category list (or None) does
\* not fail for it: it returns what it returns for the full built-in list, and
\* when it returns every record carries a category; called with a non-empty
\* wrong-shaped argument (not iterable, or a list with a non-string element)
\* on a decodable batch it raises TypeError or AttributeError, never a
\* ValidationError, and returns no record.
C9_EmptyCategoriesMeanAll ==
    (Finished("categorize_incidents") /\ Decodable) =>
        /\ ~Truthy(tr_categories) =>
            /\ tr_result = categorize_incidents(tr_data, BuiltInCategories)
            /\ tr_result.raised \in {NoError, "AttributeError"}
            /\ tr_result.raised = NoError =>
                 \A k \in 1..Len(InputRows) : "category" \in DOMAIN OutputRows[k].d
        /\ WrongShaped(tr_categories) =>
            /\ tr_result.raised \in {"TypeError", "AttributeError"}
            /\ tr_result.out = PyNone

\* categorize returned for an empty category list, and labelled a record by a
\* built-in rule
C9_Witness ==
    /\ Returned("categorize_incidents")
    /\ tr_categories = PyList(<<>>)
    /\ \E k \in 1..Len(InputRows) :
        Get(OutputRows[k], "category") = PyStr(Lower(THEFT_PROPERTY))

-----------------------------------------------------------------------------
(* the load server's tools, called in any order on one store *)

NameIncidents == <<"i", "n", "c", "i", "d", "e", "n", "t", "s">>
NameDigitFirst == <<"1", "a", "b", "c">>
NameUnderscore == <<"_">>
NameInjection == <<"t", ";", " ", "D", "R", "O", "P">>
CharsLower_x == <<"x">>

TableNames ==
    {NameIncidents, NameDigitFirst, <<>>, NameUnderscore, NameInjection}

LoadRow(k) ==
    IF k % 2 = 1
    THEN FromFields([incident_type |-> PyStr(CharsX), category |-> PyStr(CharsLower_x)])
    ELSE FromFields([narrative |-> PyStr(TextNoise),
                     location |-> PyDict([city |-> PyStr(CharsAbc)]),
                     report_date |-> PyStr(DateSocrata)])

\* the JSON texts of the batches of 0..MaxRows rows
LoadBatches == {Json(PyList([k \in 1..n |-> LoadRow(k)])) : n \in 0..MaxRows}

ToSqlOutcomes == {"ok", "error", "error_after_drop"}

InitLoad == IdlePlanner /\ IdleTransform /\ IdleExtract /\ IdleDecoder /\ IdleLoad /\ IdlePipeline /\ IdleExtract /\ IdleDecoder

SaveSucceeded(msg) == msg.payload.d["ok"] = PyBool(TRUE)

CallSave ==
    \E d \in LoadBatches \cup MalformedData, name \in TableNames, io \in ToSqlOutcomes :
        LET r == save_to_sqlite(d, name, io, db_exists, tables)
        IN  /\ load_call' = [tool |-> "save_to_sqlite", data |-> d, table_name |-> name]
            /\ load_result' = r.msg
            /\ db_exists' = r.db_exists
            /\ tables' = r.tables
            \* the number of rows passed to the latest successful save of each table
            /\ saved_rows' = IF SaveSucceeded(r.msg)
                             THEN Put(saved_rows, name, Len(d.payload.xs))
                             ELSE saved_rows
            /\ UNCHANGED <<plannerVars, transformVars, extractVars, decoderVars, pipelineVars>>

CallSummary ==
    \E name \in TableNames :
        /\ load_call' = [tool |-> "generate_summary", table_name |-> name]
        /\ load_result' = generate_summary(name, db_exists, tables)
        /\ UNCHANGED <<db_exists, tables, saved_rows, plannerVars, transformVars, extractVars, decoderVars, pipelineVars>>

CallQuery ==
    \E sql \in {[kind |-> "count", table |-> n] : n \in TableNames}
               \cup {[kind |-> "group", column |-> "category", table |-> NameIncidents],
                     [kind |-> "garbage"]} :
        /\ load_call' = [tool |-> "query_database", sql |-> sql]
        /\ load_result' = query_database(sql, db_exists, tables)
        /\ UNCHANGED <<db_exists, tables, saved_rows, plannerVars, transformVars, extractVars, decoderVars, pipelineVars>>

NextLoad == CallSave \/ CallSummary \/ CallQuery

SpecLoad == InitLoad /\ [][NextLoad]_vars

Summarized == load_call.tool = "generate_summary"
Saved == load_call.tool = "save_to_sqlite"
Reply == load_result.payload

\* C4: after any sequence of saves on a table, summarize on it reports
\* total_rows equal to the number of rows passed to the most recent successful
\* save (a repeated save replaces the contents, rows never accumulate).
C4_SummaryTotalRows ==
    (Summarized /\ load_call.table_name \in DOMAIN saved_rows) =>
        /\ "total_rows" \in DOMAIN Reply.d
        /\ Reply.d["total_rows"] = PyInt(saved_rows[load_call.table_name])

\* letters, digits and underscore only, not starting with a digit
StrictIdentifier(name) ==
    /\ name # <<>>
    /\ \A k \in 1..Len(name) : IsAlnumChar(name[k]) \/ name[k] = "_"
    /\ ~IsDigit(name[1])

RejectedForName(msg) ==
    msg = ErrorMsg("ValueError: table_name must be alphanumeric/underscore only")

\* C6 as stated: save rejects every table name that does not match the strict
\* identifier pattern (letters, digits and underscore, not starting with a
\* digit), and a rejected save leaves the store unchanged.
C6_RejectsNonIdentifiers ==
    [][(Saved' /\ ~StrictIdentifier(load_call'.table_name)) =>
         (/\ RejectedForName(load_result')
          /\ db_exists' = db_exists /\ tables' = tables)]_vars

\* a name with a character that is no letter, digit or underscore, or with no
\* letter or digit at all
NotAlnumUnderscore(name) ==
    \/ \E k \in 1..Len(name) : ~(IsAlnumChar(name[k]) \/ name[k] = "_")
    \/ ~\E k \in 1..Len(name) : IsAlnumChar(name[k])

\* C6 amended: save rejects every table name that is empty, holds a character
\* other than letters, digits and underscore, or holds no letter or digit; a
\* rejected save leaves the store unchanged (no table created, dropped or
\* modified, no database file created); a name of letters, digits and
\* underscores that starts with a digit is not rejected.
C6_RejectsNonAlnumNames ==
    [][Saved' =>
         /\ NotAlnumUnderscore(load_call'.table_name) =>
              (/\ RejectedForName(load_result')
               /\ db_exists' = db_exists /\ tables' = tables)
         /\ ~NotAlnumUnderscore(load_call'.table_name) => ~RejectedForName(load_result')
         /\ RejectedForName(load_result') => (db_exists' = db_exists /\ tables' = tables)]_vars

\* a save under a name with a forbidden character was rejected while the
\* store held a table, and a save under a name starting with a digit created
\* a table
C6_Witness ==
    /\ Saved /\ load_call.table_name = NameInjection
    /\ RejectedForName(load_result)
    /\ NameDigitFirst \in DOMAIN tables

-----------------------------------------------------------------------------
(* the extract server's fetch tools, called in any order *)

MaxRequests == 2

HttpAnswers ==
    {[kind |-> "rows", rows |-> [k \in 1..n |-> LoadRow(k)]] : n \in 0..MaxRows}
    \cup {[kind |-> k] : k \in {"http_error", "not_list", "unreachable"}}

Limits == {0 - 5, 0, 1, 100, 2000, 2001, 50000}
Offsets == {0 - 1, 0, 50}
IsoDates == {DateOnly, DateSocrata}

InitExtract == IdlePlanner /\ IdleTransform /\ IdleLoad /\ IdleDecoder /\ IdleExtract /\ IdlePipeline

CallFetchIncidents ==
    \E l \in Limits, o \in Offsets, http \in HttpAnswers :
        LET r == fetch_incidents(l, o, http)
        IN  /\ requests + r.sent <= MaxRequests
            /\ fetch_call' = [tool |-> "fetch_incidents", limit |-> l, offset |-> o]
            /\ fetch_result' = Ok(r.reply)
            /\ requests' = requests + r.sent
            /\ UNCHANGED <<plannerVars, transformVars, loadVars, decoderVars, pipelineVars>>

CallFetchByDateRange ==
    \E s \in IsoDates, e \in IsoDates, l \in Limits, o \in Offsets, http \in HttpAnswers :
        LET r == fetch_by_date_range(s, e, l, o, http)
        IN  /\ requests + r.sent <= MaxRequests
            /\ fetch_call' = [tool |-> "fetch_by_date_range", start_iso |-> s,
                              end_iso |-> e, limit |-> l, offset |-> o]
            /\ fetch_result' = Ok(r.reply)
            /\ requests' = requests + r.sent
            /\ UNCHANGED <<plannerVars, transformVars, loadVars, decoderVars, pipelineVars>>

NextExtract == CallFetchIncidents \/ CallFetchByDateRange

SpecExtract == InitExtract /\ [][NextExtract]_vars

FetchCalled == fetch_call.tool \in {"fetch_incidents", "fetch_by_date_range"}
OutOfBounds(call) == call.limit < 1 \/ call.limit > 2000 \/ call.offset < 0
IsErrorObject(text) ==
    /\ text.t = "text" /\ text.form = "json" /\ IsDict(text.payload)
    /\ Get(text.payload, "ok") = PyBool(FALSE)
    /\ "error" \in DOMAIN text.payload.d

\* C5 as stated: for every limit outside [1,2000] or offset < 0 a fetch call
\* fails with a ValidationError (it raises) and issues no network request.
C5_OutOfBoundsRaises ==
    [][(FetchCalled' /\ OutOfBounds(fetch_call')) =>
         (fetch_result'.raised # NoError /\ requests' = requests)]_vars

\* C5 amended: for every limit outside [1,2000] or offset < 0 a fetch call
\* raises nothing: it returns the error object {"ok": false, "error": ...} as
\* its result, and issues no network request.
C5_OutOfBoundsReturnsError ==
    [][(FetchCalled' /\ OutOfBounds(fetch_call')) =>
         (/\ fetch_result'.raised = NoError
          /\ IsErrorObject(fetch_result'.out)
          /\ requests' = requests)]_vars

\* a fetch with a limit above the ceiling returned the error object after an
\* earlier fetch had sent a request
C5_Witness ==
    /\ FetchCalled /\ fetch_call.limit > 2000 /\ fetch_call.offset >= 0
    /\ IsErrorObject(fetch_result.out)
    /\ requests = 1

-----------------------------------------------------------------------------
(* ensure_list on one value *)

CtxSample == <<"f", "e", "t", "c", "h", "_", "i", "n", "c", "i", "d", "e", "n", "t", "s", "(", "s", "a", "m", "p", "l", "e", ")">>
CtxFull == <<"f", "e", "t", "c", "h", "_", "i", "n", "c", "i", "d", "e", "n", "t", "s", "(", "f", "u", "l", "l", ")">>
CtxClean == <<"c", "l", "e", "a", "n", "_", "d", "a", "t", "e", "s">>
CtxCategorize == <<"c", "a", "t", "e", "g", "o", "r", "i", "z", "e", "_", "i", "n", "c", "i", "d", "e", "n", "t", "s">>

Elements == {EmptyDict, FromFields([case_number |-> PyInt(123)]), PyInt(5),
             PyStr(CharsAbc), PyNone, PyList(<<>>)}

ElementLists == {PyList(xs) : xs \in UNION {[1..n -> Elements] : n \in 0..MaxRows}}

EnsureInputs ==
    ElementLists
    \cup {Json(v) : v \in ElementLists}
    \cup {PyText("fenced", v) : v \in ElementLists}
    \cup {PyNone, EmptyDict, Json(EmptyDict), Json(PyInt(3)), ErrorMsg("limit must be > 0"),
          PyText("prose", PyNone), PyText("blank", PyNone)}

InitDecoder ==
    /\ IdlePlanner /\ IdleTransform /\ IdleLoad /\ IdleExtract /\ IdlePipeline
    /\ en_data \in EnsureInputs
    /\ en_ctx \in {CtxSample, CtxFull}
    /\ en_result = Pending

CallEnsureList ==
    /\ en_result = Pending
    /\ en_result' = ensure_list(en_data, en_ctx)
    /\ UNCHANGED <<en_data, en_ctx, plannerVars, transformVars, loadVars, extractVars, pipelineVars>>

NextDecoder == CallEnsureList

SpecDecoder == InitDecoder /\ [][NextDecoder]_vars

Decoded == try_parse_json(en_data)
NotMapping(k) == ~IsDict(Decoded.xs[k])
FirstOffender ==
    CHOOSE k \in 1..Len(Decoded.xs) : NotMapping(k) /\ \A j \in 1..(k - 1) : ~NotMapping(j)

\* C10: ensure_list accepts a value only if it is a sequence whose every
\* element is a mapping; if any element at any index is not a mapping it
\* fails with an error naming the offender's type and the context string.
C10_EveryElementChecked ==
    en_result # Pending =>
        /\ en_result.raised = NoError =>
             (IsList(Decoded) /\ \A k \in 1..Len(Decoded.xs) : ~NotMapping(k))
        /\ (IsList(Decoded) /\ \E k \in 1..Len(Decoded.xs) : NotMapping(k)) =>
             /\ en_result.raised # NoError
             /\ en_result.message = [ctx |-> en_ctx,
                                     got |-> TypeName(Decoded.xs[FirstOffender])]

-----------------------------------------------------------------------------
(* advisory outputs the planner is run on *)

Chars0 == <<"0">>
Chars12 == <<"1", "2">>
CharsNeg7 == <<"-", "7">>
CharsPadded == <<" ", "9", "9", "9", "9", " ">>
CharsFloat == <<"3", ".", "5">>
CharsWord == <<"l", "o", "t", "s">>

FieldValues ==
    {PyInt(n) : n \in {0 - 100000, 0 - 1, 0, 1, 99, 100, 101, 500, 2000, 2001, 100000}}
    \cup {PyFloat(k) : k \in {0 - 15, 0 - 5, 995, 1005, 20009, 20010}}
    \cup {PyStr(s) : s \in {<<>>, Chars0, Chars12, CharsNeg7, CharsPadded, CharsFloat, CharsWord}}
    \cup {PyBool(TRUE), PyBool(FALSE), PyNone, PyInf, PyNan, PyList(<<>>), EmptyDict}


PlanDicts ==
    {PyDict(<<>>)}
    \cup {PyDict([k \in {"fetch_limit"} |-> v]) : v \in FieldValues}
    \cup {PyDict([k \in {"fetch_offset"} |-> v]) : v \in FieldValues}
    \cup {PyDict([k \in {"note"} |-> v]) : v \in {PyInt(5)}}
    \cup {PyDict([k \in {"fetch_limit", "fetch_offset"} |->
                    IF k = "fetch_limit" THEN v ELSE w]) : v \in FieldValues, w \in FieldValues}

Payloads ==
    PlanDicts \cup {PyNone, PyInt(7), PyInt(0 - 3), PyBool(TRUE), PyFloat(25),
                    PyList(<<>>), PyList(<<PyInt(5000)>>), PyList(<<EmptyDict>>)}

AdvisoryOutputs ==
    {PyText("json", p) : p \in Payloads}
    \cup {PyText("fenced", p) : p \in Payloads}
    \cup {PyText("prose", PyNone), PyText("blank", PyNone)}

-----------------------------------------------------------------------------
(* the planner on its own: one advisory output, decoded and sanitised *)

InitPlanner ==
    /\ IdleTransform /\ IdleLoad /\ IdleExtract /\ IdleDecoder /\ IdlePipeline
    /\ llm_out \in AdvisoryOutputs
    /\ llm_plan = PyNone
    /\ limit = DEFAULT_LIMIT
    /\ offset = DEFAULT_OFFSET
    /\ plan_pc = "decode"

Decode ==
    /\ plan_pc = "decode"
    /\ llm_plan' = try_parse_json(llm_out)
    /\ plan_pc' = "sanitize"
    /\ UNCHANGED <<llm_out, limit, offset, transformVars, loadVars, extractVars, decoderVars, pipelineVars>>

Sanitize ==
    /\ plan_pc = "sanitize"
    /\ limit' = sanitize_plan(llm_plan).limit
    /\ offset' = sanitize_plan(llm_plan).offset
    /\ plan_pc' = "planned"
    /\ UNCHANGED <<llm_out, llm_plan, transformVars, loadVars, extractVars, decoderVars, pipelineVars>>

NextPlanner == Decode \/ Sanitize

SpecPlanner == InitPlanner /\ [][NextPlanner]_vars

\* C2: whatever the advisory output (JSON with out-of-range, negative,
\* non-numeric or missing fetch_limit/fetch_offset, a non-object value, fenced
\* JSON, prose, blank), the plan sanitize_plan produces from the decoded output
\* has 100 <= limit <= 2000 and offset >= 0.
C2_PlanAlwaysValid ==
    plan_pc = "planned" => (100 <= limit /\ limit <= 2000 /\ offset >= 0)

\* a plan was produced from an advisory object whose suggested limit lies below
\* the floor and whose offset is negative, and both were clamped
C2_Witness ==
    /\ plan_pc = "planned"
    /\ IsDict(llm_plan)
    /\ HasKey(llm_plan, "fetch_limit") /\ HasKey(llm_plan, "fetch_offset")
    /\ IntOf(llm_plan.d["fetch_limit"]).ok /\ IntOf(llm_plan.d["fetch_limit"]).i < 100
    /\ IntOf(llm_plan.d["fetch_offset"]).ok /\ IntOf(llm_plan.d["fetch_offset"]).i < 0
    /\ limit = 100 /\ offset = 0

-----------------------------------------------------------------------------
(* run_pipeline: one run of the orchestrator against the three servers; the
   MCP sessions deliver every call and every reply *)

DEFAULT_TABLE == NameIncidents

PipeRow(k) ==
    IF k % 3 = 1
    THEN FromFields([narrative |-> PyStr(TextBurglary), report_date |-> PyStr(DateSocrata),
                     offense_date |-> PyStr(DateFraction),
                     latitude |-> PyStr(Chars29), longitude |-> PyStr(CharsMinus82)])
    ELSE IF k % 3 = 2
    THEN FromFields([narrative |-> PyStr(TextBoth), report_date |-> PyStr(DateOnly)])
    ELSE FromFields([incident_type |-> PyStr(TextNoise), latitude |-> PyInt(999),
                     longitude |-> PyInt(0)])

ApiAnswers ==
    {[kind |-> "rows", rows |-> [k \in 1..n |-> PipeRow(k)]] : n \in 0..MaxRows}
    \cup {[kind |-> "rows", rows |-> <<PipeRow(1), PyInt(7)>>],
          [kind |-> "rows", rows |-> <<FromFields([narrative |-> PyInt(5)])>>]}
    \cup {[kind |-> k] : k \in {"http_error", "not_list"}}

\* what call_llm gives: the content of the advisor's message, or an exception
AdvisorOutcomes ==
    {Raise("HTTPError"), Ok(PyNone),
     Ok(PyText("prose", PyNone)),
     Ok(PyText("json", PyDict([fetch_limit |-> PyInt(50000), fetch_offset |-> PyInt(0 - 3)]))),
     Ok(PyText("json", PyDict([fetch_limit |-> PyStr(Chars12)]))),
     Ok(PyText("fenced", PyDict([fetch_limit |-> PyInt(1000), fetch_offset |-> PyInt(50)]))),
     Ok(PyText("json", PyList(<<PyInt(5000)>>)))}

StaleTable == Put(<<>>, DEFAULT_TABLE, <<LoadRow(1)>>)

Init ==
    /\ IdleTransform /\ IdleDecoder
    /\ plan_pc = "idle" /\ llm_out = PyNone /\ llm_plan = PyNone
    /\ limit = DEFAULT_LIMIT /\ offset = DEFAULT_OFFSET
    /\ requests = 0 /\ fetch_call = NoCall /\ fetch_result = Pending
    \* the store is empty, or holds the table an earlier run saved
    /\ \/ (db_exists = FALSE /\ tables = <<>>)
       \/ (db_exists = TRUE /\ tables = StaleTable)
    /\ load_call = NoCall /\ load_result = PyNone /\ saved_rows = <<>>
    /\ pc = "schema"
    /\ calls = <<>>
    /\ api_key \in BOOLEAN
    /\ schema = PyNone /\ sample = PyNone /\ anomalies = PyNone
    /\ llm_request = PyNone
    /\ incidents = PyNone /\ cleaned = PyNone /\ categorized = PyNone
    /\ save_msg = PyNone /\ summary = PyNone
    /\ safe_queries = <<>> /\ query_results = <<>>
    /\ printed = FALSE
    /\ error = NoError

serverVars == <<transformVars, decoderVars, plan_pc, fetch_call, fetch_result,
                load_call, load_result, saved_rows>>

Call(server, name, args) == [server |-> server, tool |-> name, args |-> args]

\* an exception leaves run_pipeline: the run ends in failure
Abort(e) == pc' = "failed" /\ error' = e

\* schema = await read_schema(extract)
ReadSchema ==
    /\ pc = "schema"
    /\ \E resource_ok \in BOOLEAN :
        /\ schema' = read_schema(resource_ok)
        /\ calls' = calls
                    \o <<Call("extract", "schema://incidents", <<>>)>>
                    \o (IF resource_ok THEN <<>> ELSE <<Call("extract", "get_schema", <<>>)>>)
    /\ pc' = "sample"
    /\ UNCHANGED <<sample, anomalies, api_key, llm_request, llm_out, llm_plan, limit, offset,
                   incidents, cleaned, categorized, save_msg, summary, safe_queries,
                   query_results, printed, error, requests, db_exists, tables, serverVars>>

\* the sample fetch and ensure_list(sample_raw, "fetch_incidents(sample)")
FetchSample ==
    /\ pc = "sample"
    /\ \E http \in ApiAnswers :
        LET r == fetch_incidents(100, 0, http)
            checked == ensure_list(call_tool(Ok(r.reply)), CtxSample)
        IN  /\ requests' = requests + r.sent
            /\ calls' = Append(calls, Call("extract", "fetch_incidents",
                                           [limit |-> 100, offset |-> 0]))
            /\ IF checked.raised = NoError
               THEN /\ sample' = checked.out
                    /\ pc' = "detect"
                    /\ error' = error
               ELSE /\ Abort(checked.raised)
                    /\ sample' = sample
    /\ UNCHANGED <<schema, anomalies, api_key, llm_request, llm_out, llm_plan, limit, offset,
                   incidents, cleaned, categorized, save_msg, summary, safe_queries,
                   query_results, printed, db_exists, tables, serverVars>>

\* anomalies = try_parse_json(call_tool(transform, "detect_anomalies", ...))
DetectAnomalies ==
    /\ pc = "detect"
    /\ anomalies' = try_parse_json(call_tool(detect_anomalies(Json(sample))))
    /\ calls' = Append(calls, Call("transform", "detect_anomalies", [data |-> Json(sample)]))
    /\ pc' = "plan"
    /\ UNCHANGED <<schema, sample, api_key, llm_request, llm_out, llm_plan, limit, offset,
                   incidents, cleaned, categorized, save_msg, summary, safe_queries,
                   query_results, printed, error, requests, db_exists, tables, serverVars>>

\* no NAVIGATOR_API_KEY: the default plan stands
PlanDefault ==
    /\ pc = "plan" /\ ~api_key
    /\ pc' = "fetch"
    /\ UNCHANGED <<calls, schema, sample, anomalies, api_key, llm_request, llm_out, llm_plan,
                   limit, offset, incidents, cleaned, categorized, save_msg, summary,
                   safe_queries, query_results, printed, error, requests, db_exists, tables,
                   serverVars>>

\* the advisor is asked and what it raises leaves run_pipeline
PlanWithAdvisorPropagating ==
    /\ pc = "plan" /\ api_key
    /\ llm_request' = build_llm_plan_prompt(schema, anomalies)
    /\ \E answer \in AdvisorOutcomes :
        IF answer.raised = NoError
        THEN /\ llm_out' = answer.out
             /\ llm_plan' = try_parse_json(answer.out)
             /\ limit' = sanitize_plan(try_parse_json(answer.out)).limit
             /\ offset' = sanitize_plan(try_parse_json(answer.out)).offset
             /\ plan_pc' = "planned"
             /\ pc' = "fetch" /\ error' = error
        ELSE /\ UNCHANGED <<llm_out, llm_plan, limit, offset>>
             /\ plan_pc' = "raised"
             /\ Abort(answer.raised)
    /\ UNCHANGED <<calls, schema, sample, anomalies, api_key, incidents, cleaned, categorized,
                   save_msg, summary, safe_queries, query_results, printed, requests,
                   db_exists, tables, transformVars, decoderVars, fetch_call, fetch_result,
                   load_call, load_result, saved_rows>>

\* the advisor is asked; any exception leaves the default plan in place
\* (plan_pc tells whether the try block completed or the handler ran)
PlanWithAdvisor ==
    /\ pc = "plan" /\ api_key
    /\ llm_request' = build_llm_plan_prompt(schema, anomalies)
    /\ \E answer \in AdvisorOutcomes :
        IF answer.raised = NoError
        THEN /\ llm_out' = answer.out
             /\ llm_plan' = try_parse_json(answer.out)
             /\ limit' = sanitize_plan(try_parse_json(answer.out)).limit
             /\ offset' = sanitize_plan(try_parse_json(answer.out)).offset
             /\ plan_pc' = "planned"
        ELSE /\ UNCHANGED <<llm_out, llm_plan, limit, offset>>
             /\ plan_pc' = "raised"
    /\ pc' = "fetch"
    /\ UNCHANGED <<calls, schema, sample, anomalies, api_key, incidents, cleaned, categorized,
                   save_msg, summary, safe_queries, query_results, printed, error, requests,
                   db_exists, tables, transformVars, decoderVars, fetch_call, fetch_result,
                   load_call, load_result, saved_rows>>

\* the full fetch and ensure_list(raw_batch, "fetch_incidents(full)")
FetchFull ==
    /\ pc = "fetch"
    /\ \E http \in ApiAnswers :
        LET r == fetch_incidents(limit, offset, http)
            checked == ensure_list(call_tool(Ok(r.reply)), CtxFull)
        IN  /\ requests' = requests + r.sent
            /\ calls' = Append(calls, Call("extract", "fetch_incidents",
                                           [limit |-> limit, offset |-> offset]))
            /\ IF checked.raised = NoError
               THEN /\ incidents' = checked.out
                    /\ pc' = "clean"
                    /\ error' = error
               ELSE /\ Abort(checked.raised)
                    /\ incidents' = incidents
    /\ UNCHANGED <<schema, sample, anomalies, api_key, llm_request, llm_out, llm_plan, limit,
                   offset, cleaned, categorized, save_msg, summary, safe_queries,
                   query_results, printed, db_exists, tables, serverVars>>

\* clean_dates and ensure_list(cleaned_raw, "clean_dates")
CleanDates ==
    /\ pc = "clean"
    /\ LET checked == ensure_list(call_tool(clean_dates(Json(incidents))), CtxClean)
       IN  IF checked.raised = NoError
           THEN /\ cleaned' = checked.out
                /\ pc' = "categorize"
                /\ error' = error
           ELSE /\ Abort(checked.raised)
                /\ cleaned' = cleaned
    /\ calls' = Append(calls, Call("transform", "clean_dates", [data |-> Json(incidents)]))
    /\ UNCHANGED <<schema, sample, anomalies, api_key, llm_request, llm_out, llm_plan, limit,
                   offset, incidents, categorized, save_msg, summary, safe_queries,
                   query_results, printed, requests, db_exists, tables, serverVars>>

\* categorize_incidents and ensure_list(categorized_raw, "categorize_incidents")
Categorize ==
    /\ pc = "categorize"
    /\ LET checked == ensure_list(
                          call_tool(categorize_incidents(Json(cleaned), DEFAULT_CATEGORIES)),
                          CtxCategorize)
       IN  IF checked.raised = NoError
           THEN /\ categorized' = checked.out
                /\ pc' = "save"
                /\ error' = error
           ELSE /\ Abort(checked.raised)
                /\ categorized' = categorized
    /\ calls' = Append(calls, Call("transform", "categorize_incidents",
                                   [data |-> Json(cleaned), categories |-> DEFAULT_CATEGORIES]))
    /\ UNCHANGED <<schema, sample, anomalies, api_key, llm_request, llm_out, llm_plan, limit,
                   offset, incidents, cleaned, save_msg, summary, safe_queries,
                   query_results, printed, requests, db_exists, tables, serverVars>>

\* Save with a retry: a save that did not succeed is issued again
SaveWithRetry ==
    /\ pc = "save"
    /\ \E io \in ToSqlOutcomes :
        LET r == save_to_sqlite(Json(categorized), DEFAULT_TABLE, io, db_exists, tables)
            msg == call_tool(Ok(r.msg))
        IN  /\ save_msg' = msg
            /\ db_exists' = r.db_exists
            /\ tables' = r.tables
            /\ pc' = (IF IsDict(msg) /\ Get(msg, "ok") = PyBool(TRUE) THEN "summary" ELSE "save")
            /\ error' = error
    /\ calls' = Append(calls, Call("load", "save_to_sqlite",
                                   [data |-> Json(categorized), table_name |-> DEFAULT_TABLE]))
    /\ UNCHANGED <<schema, sample, anomalies, api_key, llm_request, llm_out, llm_plan, limit,
                   offset, incidents, cleaned, categorized, summary, safe_queries,
                   query_results, printed, requests, serverVars>>

\* save_to_sqlite, then the check of save_msg that raises RuntimeError
Save ==
    /\ pc = "save"
    /\ \E io \in ToSqlOutcomes :
        LET r == save_to_sqlite(Json(categorized), DEFAULT_TABLE, io, db_exists, tables)
            msg == call_tool(Ok(r.msg))
        IN  /\ save_msg' = msg
            /\ db_exists' = r.db_exists
            /\ tables' = r.tables
            /\ IF SaveFailed(msg)
               THEN Abort("RuntimeError")
               ELSE pc' = "summary" /\ error' = error
    /\ calls' = Append(calls, Call("load", "save_to_sqlite",
                                   [data |-> Json(categorized), table_name |-> DEFAULT_TABLE]))
    /\ UNCHANGED <<schema, sample, anomalies, api_key, llm_request, llm_out, llm_plan, limit,
                   offset, incidents, cleaned, categorized, summary, safe_queries,
                   query_results, printed, requests, serverVars>>

\* generate_summary, and build_safe_queries(categorized[:1], table_name)
Summarize ==
    /\ pc = "summary"
    /\ summary' = call_tool(Ok(generate_summary(DEFAULT_TABLE, db_exists, tables)))
    /\ safe_queries' = build_safe_queries(Take(categorized.xs, 1), DEFAULT_TABLE)
    /\ calls' = Append(calls, Call("load", "generate_summary", [table_name |-> DEFAULT_TABLE]))
    /\ pc' = "queries"
    /\ UNCHANGED <<schema, sample, anomalies, api_key, llm_request, llm_out, llm_plan, limit,
                   offset, incidents, cleaned, categorized, save_msg, query_results, printed,
                   error, requests, db_exists, tables, serverVars>>

\* one turn of the loop over safe_queries
Query ==
    /\ pc = "queries"
    /\ Len(query_results) < Len(safe_queries)
    /\ LET q == safe_queries[Len(query_results) + 1]
       IN  /\ query_results' =
                 Append(query_results,
                        [sql |-> q, result |-> call_tool(Ok(query_database(q, db_exists, tables)))])
           /\ calls' = Append(calls, Call("load", "query_database", [sql |-> q]))
    /\ UNCHANGED <<pc, schema, sample, anomalies, api_key, llm_request, llm_out, llm_plan,
                   limit, offset, incidents, cleaned, categorized, save_msg, summary,
                   safe_queries, printed, error, requests, db_exists, tables, serverVars>>

\* the report is printed and the run completes
Report ==
    /\ pc = "queries"
    /\ Len(query_results) = Len(safe_queries)
    /\ printed' = TRUE
    /\ pc' = "done"
    /\ UNCHANGED <<calls, schema, sample, anomalies, api_key, llm_request, llm_out, llm_plan,
                   limit, offset, incidents, cleaned, categorized, save_msg, summary,
                   safe_queries, query_results, error, requests, db_exists, tables,
                   serverVars>>

Next ==
    \/ ReadSchema \/ FetchSample \/ DetectAnomalies \/ PlanDefault \/ PlanWithAdvisor
    \/ FetchFull \/ CleanDates \/ Categorize \/ Save \/ Summarize \/ Query \/ Report

Spec == Init /\ [][Next]_vars

SaveReturnedNotOk == IsDict(save_msg) /\ Get(save_msg, "ok") = PyBool(FALSE)
Issued(name) == \E k \in 1..Len(calls) : calls[k].tool = name

\* C1: in every run, if the save_to_sqlite call returns a result with
\* ok:false, no generate_summary and no query_database call is issued
\* afterwards, the report is not printed, and the run ends in failure.
C1_SaveFailureStopsRun ==
    SaveReturnedNotOk =>
        /\ ~Issued("generate_summary") /\ ~Issued("query_database")
        /\ ~printed
        /\ pc = "failed"

-----------------------------------------------------------------------------
(* the order of the stages of a run *)

StageOrder ==
    <<"schema", "sample", "detect", "plan", "fetch", "clean", "categorize", "save",
      "summary", "queries", "done">>

Rank(stage) == CHOOSE k \in 1..Len(StageOrder) : StageOrder[k] = stage

\* the stage a call of the log belongs to: the first fetch_incidents call is
\* the sample fetch, a later one the full fetch
StageOfCall(k) ==
    LET tool == calls[k].tool
    IN  IF tool \in {"schema://incidents", "get_schema"} THEN "schema"
        ELSE IF tool = "fetch_incidents"
        THEN (IF \E j \in 1..(k - 1) : calls[j].tool = "fetch_incidents"
              THEN "fetch" ELSE "sample")
        ELSE IF tool = "detect_anomalies" THEN "detect"
        ELSE IF tool = "clean_dates" THEN "clean"
        ELSE IF tool = "categorize_incidents" THEN "categorize"
        ELSE IF tool = "save_to_sqlite" THEN "save"
        ELSE IF tool = "generate_summary" THEN "summary"
        ELSE "queries"

\* two calls of one stage: the fallback of the schema read after the resource
\* read, or two different statements of the queries
SameStageAllowed(j, k) ==
    \/ (calls[j].tool = "schema://incidents" /\ calls[k].tool = "get_schema")
    \/ (calls[j].tool = "query_database" /\ calls[k].tool = "query_database"
        /\ calls[j].args.sql # calls[k].args.sql)

CallsInStageOrder ==
    \A j, k \in 1..Len(calls) :
        j < k =>
            \/ Rank(StageOfCall(j)) < Rank(StageOfCall(k))
            \/ (StageOfCall(j) = StageOfCall(k) /\ SameStageAllowed(j, k))

\* the calls of every stage before the one the run stands at were issued, and
\* their results are in hand
EarlierStagesCompleted ==
    pc # "failed" =>
        /\ Rank(pc) > Rank("schema") => (schema # PyNone /\ Issued("schema://incidents"))
        /\ Rank(pc) > Rank("sample") => (IsList(sample) /\ Issued("fetch_incidents"))
        /\ Rank(pc) > Rank("detect") => (anomalies # PyNone /\ Issued("detect_anomalies"))
        /\ Rank(pc) > Rank("plan") => (api_key => llm_request # PyNone)
        /\ Rank(pc) > Rank("fetch") => IsList(incidents)
        /\ Rank(pc) > Rank("clean") => (IsList(cleaned) /\ Issued("clean_dates"))
        /\ Rank(pc) > Rank("categorize") =>
             (IsList(categorized) /\ Issued("categorize_incidents"))
        /\ Rank(pc) > Rank("save") => (save_msg # PyNone /\ Issued("save_to_sqlite"))
        /\ Rank(pc) > Rank("summary") => (summary # PyNone /\ Issued("generate_summary"))
        /\ Rank(pc) > Rank("queries") => (printed /\ Len(query_results) = Len(safe_queries))

\* C11: in every run the stages occur in the order schema read, sample fetch,
\* anomaly detection, planning, full fetch, clean_dates, categorize, save,
\* summarize, queries, report; the run moves from a stage only to the next
\* one or to failure, no call of a stage is issued twice, and a stage starts
\* only when the calls of the earlier stages have returned.
C11_StagesInFixedOrder ==
    /\ [](CallsInStageOrder /\ EarlierStagesCompleted)
    /\ [][/\ pc \in {"failed", "done"} => (pc' = pc /\ calls' = calls)
          /\ (pc \notin {"failed", "done"} /\ pc' # pc) =>
                (pc' = "failed" \/ Rank(pc') = Rank(pc) + 1)
          /\ (pc' = pc /\ calls' # calls) => pc = "queries"]_vars

\* a run whose first row has a category and a date went through every stage,
\* asked the advisor, ran three statements and printed the report
C11_Witness ==
    /\ pc = "done" /\ printed /\ api_key
    /\ Len(query_results) = 3
    /\ Len(calls) = 11

-----------------------------------------------------------------------------
(* failures of the diagnostic stages *)

FetchCalls == {k \in 1..Len(calls) : calls[k].tool = "fetch_incidents"}
FullFetchIssued == Cardinality(FetchCalls) = 2
FullFetchCall == calls[CHOOSE k \in FetchCalls : \A j \in FetchCalls : j <= k]

\* C12: a failure of a stage that is not load-critical (schema unreadable,
\* sample fetch returning an error object or a malformed sample, anomaly
\* detection failing) never aborts the run: a run that ends in failure has
\* issued the full fetch.
C12_DiagnosticFailureNeverAborts ==
    pc = "failed" => FullFetchIssued

-----------------------------------------------------------------------------
(* the plan when the advisor is absent or fails *)

NoAdvisor == ~api_key
AdvisoryRaised == api_key /\ plan_pc = "raised"

\* C13: when no advisor is configured, or the advisory call (or the decoding
\* or sanitising of its answer) raises an exception, the run is not aborted by
\* planning and the full fetch is issued with exactly limit=500, offset=0.
C13_DefaultPlanWithoutAdvice ==
    /\ []((NoAdvisor \/ AdvisoryRaised) =>
            /\ (limit = 500 /\ offset = 0)
            /\ FullFetchIssued => FullFetchCall.args = [limit |-> 500, offset |-> 0])
    /\ [][(pc = "plan" /\ pc' # pc /\ (NoAdvisor \/ AdvisoryRaised')) =>
            /\ pc' = "fetch" /\ error' = NoError
            /\ limit' = 500 /\ offset' = 0]_vars
    /\ [][(pc = "fetch" /\ (NoAdvisor \/ AdvisoryRaised)) =>
            (FullFetchIssued' /\ FullFetchCall'.args = [limit |-> 500, offset |-> 0])]_vars

\* the advisor was asked and raised, and the full fetch went out with the
\* default plan
C13_Witness ==
    /\ AdvisoryRaised /\ llm_request # PyNone
    /\ FullFetchIssued
    /\ FullFetchCall.args = [limit |-> 500, offset |-> 0]
    /\ pc = "clean"

-----------------------------------------------------------------------------
(* what the advisory request holds *)

\* the value v occurs in the value c, at any depth: the prompt is the text of
\* str(schema) and str(anomalies), which spells out every nested value
RECURSIVE Occurs(_, _)
Occurs(v, c) ==
    \/ v = c
    \/ (IsList(c) /\ \E k \in 1..Len(c.xs) : Occurs(v, c.xs[k]))
    \/ (IsDict(c) /\ \E key \in DOMAIN c.d : Occurs(v, c.d[key]))

AdvisorAsked == llm_request # PyNone
InRequest(v) == Occurs(v, llm_request.schema) \/ Occurs(v, llm_request.anomalies)

\* the records of the fetched sample, and the texts held in their fields
SampleRecords == {sample.xs[k] : k \in 1..Len(sample.xs)}
SampleTexts ==
    UNION {{r.d[f] : f \in {g \in DOMAIN r.d : IsStr(r.d[g])}} :
           r \in {x \in SampleRecords : IsDict(x)}}

\* C14: the content sent to the advisor holds no raw record data: no record
\* of the fetched sample, and no field value of one, appears in the advisory
\* request.
C14_NoRecordInAdvisoryRequest ==
    AdvisorAsked =>
        /\ \A r \in SampleRecords : ~InRequest(r)
        /\ \A v \in SampleTexts : ~InRequest(v)

-----------------------------------------------------------------------------
(* the parameters of the orchestrator's fetches *)

WithinAdapterBounds(args) ==
    /\ 1 <= args.limit /\ args.limit <= 2000 /\ args.offset >= 0
    /\ ParamError(args.limit, args.offset) = ""

\* C15: every fetch_incidents call the orchestrator issues (the sample fetch
\* with limit=100, offset=0 and the full fetch with the planned limit and
\* offset) has 1 <= limit <= 2000 and offset >= 0, so the adapter's parameter
\* checks reject none of them, whatever the advisor returned.
C15_FetchesWithinAdapterBounds ==
    /\ \A k \in FetchCalls : WithinAdapterBounds(calls[k].args)
    /\ \A k \in FetchCalls :
         (\A j \in FetchCalls : k <= j) => calls[k].args = [limit |-> 100, offset |-> 0]
    /\ pc = "fetch" => WithinAdapterBounds([limit |-> limit, offset |-> offset])

\* the advisor asked for limit 50000 and offset -3, and the full fetch went
\* out with limit 2000 and offset 0
C15_Witness ==
    /\ plan_pc = "planned"
    /\ IsDict(llm_plan) /\ Get(llm_plan, "fetch_limit") = PyInt(50000)
    /\ Get(llm_plan, "fetch_offset") = PyInt(0 - 3)
    /\ FullFetchIssued
    /\ FullFetchCall.args = [limit |-> 2000, offset |-> 0]

====
